---- MODULE Spec2Model ----
(***************************************************************************)
(* Model of the image-resize proxy's request handler (src/main.rs).        *)
(*                                                                         *)
(* One request is followed through the handler: local read, remote GET,    *)
(* decode, dimension planning, resize, JPEG encode, response.  The file    *)
(* system, the remote origin and the image libraries are the environment:  *)
(* each step draws their answer from the results their API can return.     *)
(*                                                                         *)
(* Strings that the code computes with (the remote base, the request       *)
(* path, the URL) are sequences of one-character strings.  An              *)
(* Option<NonZeroU32> is a number with 0 for None.  An f32 is a pair       *)
(* <<m, k>> standing for m / 2^k with a 24-bit significand m.              *)
(***************************************************************************)
EXTENDS Integers, Sequences, FiniteSets, TLC

\* ------------------------------------------------------------ bounds
\* Largest decoded source width and height explored.
MaxSrc == 5
\* Largest value of a query parameter explored (0 stands for "absent").
MaxReq == 3
\* Largest source width and height explored by the planner-only specification.
MaxPlanSrc == 12
\* Largest `width` / `height` explored by the planner-only specification.
MaxPlanReq == 13

\* Significand width of an IEEE-754 binary32 (`as f32`).
MantBits == 24

None == "None"
LocalBytes == "LocalBytes"
RemoteBytes == "RemoteBytes"

\* --------------------------------------------------- configuration, inputs
\* Values of --remote-cdn: absent, or a string; the empty string is accepted
\* by the argument parser.
RemoteBases ==
    { <<>>, <<"h">>, <<"h", "/">>, <<"h", "/", "/">> }

\* Option<String>: <<>> for None, <<s>> for Some(s).
NoString == <<>>
SomeString(s) == <<s>>

\* Cli values that let main start the server: at least one origin is given.
\* local_folder is kept as "is some": the handler's use of the folder name is
\* inside the local read, whose result is the environment's.
Configs ==
    { c \in [local_folder : BOOLEAN,
             remote_cdn : {NoString} \cup { SomeString(b) : b \in RemoteBases }] :
        c.local_folder \/ c.remote_cdn # NoString }

\* Paths captured by the route "/*path": the leading slash followed by a
\* non-empty rest.
Paths ==
    { <<"/", "a">>, <<"/", "a", "/", "b">> }

\* Query parameters: each an Option<NonZeroU32>, 0 for None.
ParamsSet ==
    [width : 0..MaxReq, height : 0..MaxReq, w : 0..MaxReq, h : 0..MaxReq]

\* The same, over a wider range of `width` and `height`; the short names are
\* absent or carry the largest value.
PlanParamsSet ==
    [width : 0..MaxPlanReq, height : 0..MaxPlanReq,
     w : {0, MaxPlanReq}, h : {0, MaxPlanReq}]

\* Results of tokio::fs::read.
LocalResults == {"Ok", "NotFound", "OtherError"}
\* Results of client.get(url).send() followed by resp.bytes().
RemoteResults == {"Ok2xx", "Non2xx", "BodyError", "SendError"}

VARIABLES
    config,      \* the Cli extension
    path,        \* the captured request path
    params,      \* the Query extractor's Params
    pc,          \* the handler's position
    localRead,   \* result of the local read, "NotAttempted" before / without it
    remoteGet,   \* result of the remote GET, "NotIssued" before / without it
    url,         \* the URL handed to client.get
    bytes,       \* the handler's `bytes` Option
    fetched,     \* the fetch stage is over (`time_fetch` is taken)
    decoded,     \* the bytes handed to image::load_from_memory
    image,       \* <<width, height>> of the decoded image, <<0, 0>> before
    dst,         \* <<dst_width, dst_height>>, <<0, 0>> before planning
    planned,     \* the dimension block (lines 173-188) has run
    outcome,     \* how the handler ended
    response     \* the response returned

vars ==
    <<config, path, params, pc, localRead, remoteGet, url, bytes, fetched,
      decoded, image, dst, planned, outcome, response>>

NoResponse == [status |-> 0, cache |-> "", ctype |-> "", body |-> <<0, 0>>]

\* ------------------------------------------------------------ f32 arithmetic
RECURSIVE Pow2(_)
Pow2(n) == IF n = 0 THEN 1 ELSE 2 * Pow2(n - 1)

\* Long division a / b continued bit by bit until the quotient has MantBits
\* bits: <<quotient, remainder, number of fraction bits>>.
RECURSIVE DivLoop(_, _, _, _)
DivLoop(q, r, b, k) ==
    IF q >= Pow2(MantBits - 1)
    THEN <<q, r, k>>
    ELSE IF 2 * r >= b
         THEN DivLoop(2 * q + 1, 2 * r - b, b, k + 1)
         ELSE DivLoop(2 * q, 2 * r, b, k + 1)

\* Round-to-nearest-even of a significand q with a discarded part `rest` out
\* of `unit`, renormalised: <<m, k>>.
RoundNearestEven(q, rest, unit, k) ==
    LET up == 2 * rest > unit \/ (2 * rest = unit /\ q % 2 = 1)
        m  == IF up THEN q + 1 ELSE q
    IN  IF m = Pow2(MantBits) THEN <<Pow2(MantBits - 1), k - 1>> ELSE <<m, k>>

\* a as f32 / b as f32 for positive integers below 2^24 (exact as f32).
F32Div(a, b) ==
    LET d == DivLoop(a \div b, a % b, b, 0)
    IN  RoundNearestEven(d[1], d[2], b, d[3])

\* Number of low bits to drop so that p fits in MantBits bits.
RECURSIVE DropBits(_)
DropBits(p) == IF p < Pow2(MantBits) THEN 0 ELSE 1 + DropBits(p \div 2)

\* n as f32 * f for a positive integer n (exact as f32) and f = <<m, k>>.
F32Mul(n, f) ==
    LET p == n * f[1]
        s == DropBits(p)
    IN  RoundNearestEven(p \div Pow2(s), p % Pow2(s), Pow2(s), f[2] - s)

\* f as u32: truncation toward zero.
F32ToU32(f) ==
    IF f[2] >= 0
    THEN IF f[2] > 30 THEN 0 ELSE f[1] \div Pow2(f[2])
    ELSE f[1] * Pow2(0 - f[2])

\* --------------------------------------------------------- dimension planning
\* Option::or on Option<NonZeroU32>.
OptOrAliasFirst(a, b) == IF b # 0 THEN b ELSE a
OptOr(a, b) == IF a # 0 THEN a ELSE b

\* (src_other as f32 * (given as f32 / src_given as f32)) as u32.
ScaleOtherWrongAxis(given, srcGiven, srcOther) ==
    F32ToU32(F32Mul(srcGiven, F32Div(given, srcOther)))
ScaleOther(given, srcGiven, srcOther) ==
    F32ToU32(F32Mul(srcOther, F32Div(given, srcGiven)))

ReqWidth(p) == OptOr(p.width, p.w)
ReqHeight(p) == OptOr(p.height, p.h)

\* The block computing (dst_width, dst_height).
PlanDims(p, sw, sh) ==
    LET width  == ReqWidth(p)
        height == ReqHeight(p)
    IN  IF width # 0 /\ height # 0 THEN <<width, height>>
        ELSE IF width # 0 THEN <<width, ScaleOther(width, sw, sh)>>
        ELSE IF height # 0 THEN <<ScaleOther(height, sh, sw), height>>
        ELSE <<sw \div 4, sh \div 4>>

\* ------------------------------------------------------------ source fetch
Last(s) == s[Len(s)]

\* The URL built from the remote base and the path.
JoinUrlNoStrip(base, p) == base \o p
JoinUrl(base, p) ==
    IF Last(base) = "/" THEN base \o Tail(p) ELSE base \o p

\* `bytes.is_none()`: the remote is consulted only without bytes.
NeedRemoteAlways(b) == TRUE
NeedRemote(b) == b = None

\* Where the handler goes after the local read returned r: every result,
\* an unexpected I/O error included, falls through to the remote stage.
NextAfterLocalStopOnIoError(r) == IF r = "OtherError" THEN "decode" ELSE "remote"
NextAfterLocal(r) == "remote"

\* `bytes` after the remote answered.
BytesAfterRemote(b, resp) ==
    IF resp = "Ok2xx" THEN RemoteBytes ELSE b

\* ------------------------------------------------------------ responses
NotFoundResponse ==
    [status |-> 404, cache |-> "public, s-max-age=28800", ctype |-> "",
     body |-> <<0, 0>>]
DecodeErrorResponse ==
    [status |-> 500, cache |-> "public, s-max-age=604800", ctype |-> "",
     body |-> <<0, 0>>]
ResizeErrorResponse ==
    [status |-> 500, cache |-> "public, s-max-age=28800", ctype |-> "",
     body |-> <<0, 0>>]
SuccessResponse(d) ==
    [status |-> 200, cache |-> "public, s-max-age=2592000",
     ctype |-> "image/jpeg", body |-> d]

\* ------------------------------------------------------------ state machine
Init ==
    /\ config \in Configs
    /\ path \in Paths
    /\ params \in ParamsSet
    /\ pc = "local"
    /\ localRead = "NotAttempted"
    /\ remoteGet = "NotIssued"
    /\ url = <<>>
    /\ bytes = None
    /\ fetched = FALSE
    /\ decoded = None
    /\ image = <<0, 0>>
    /\ dst = <<0, 0>>
    /\ planned = FALSE
    /\ outcome = "Pending"
    /\ response = NoResponse

\* Lines 102-115: the local read.
FetchLocal ==
    /\ pc = "local"
    /\ IF config.local_folder
       THEN \E r \in LocalResults :
                /\ localRead' = r
                /\ bytes' = IF r = "Ok" THEN LocalBytes ELSE None
                /\ pc' = NextAfterLocal(r)
       ELSE /\ pc' = "remote"
            /\ UNCHANGED <<localRead, bytes>>
    /\ UNCHANGED <<config, path, params, remoteGet, url, fetched, decoded,
                   image, dst, planned, outcome, response>>

\* Lines 117-140: the remote GET.
FetchRemote ==
    /\ pc = "remote"
    /\ IF NeedRemote(bytes) /\ config.remote_cdn # NoString
       THEN IF config.remote_cdn[1] = <<>>
            THEN \* url.chars().last().unwrap() on an empty base
                 /\ pc' = "done"
                 /\ outcome' = "Panic"
                 /\ UNCHANGED <<url, remoteGet, bytes>>
            ELSE /\ url' = JoinUrl(config.remote_cdn[1], path)
                 /\ \E resp \in RemoteResults :
                        /\ remoteGet' = resp
                        /\ bytes' = BytesAfterRemote(bytes, resp)
                 /\ pc' = "decode"
                 /\ UNCHANGED outcome
       ELSE /\ pc' = "decode"
            /\ UNCHANGED <<url, remoteGet, bytes, outcome>>
    /\ UNCHANGED <<config, path, params, localRead, fetched, decoded, image,
                   dst, planned, response>>

\* Lines 142-171: the 404 without bytes, and the decode.
Decode ==
    /\ pc = "decode"
    /\ fetched' = TRUE
    /\ IF bytes = None
       THEN /\ pc' = "done"
            /\ outcome' = "SourceNotFound"
            /\ response' = NotFoundResponse
            /\ UNCHANGED <<decoded, image>>
       ELSE /\ decoded' = bytes
            /\ \/ /\ pc' = "done"
                  /\ outcome' = "DecodeFailed"
                  /\ response' = DecodeErrorResponse
                  /\ UNCHANGED image
               \/ /\ \E sw \in 1..MaxSrc, sh \in 1..MaxSrc : image' = <<sw, sh>>
                  /\ pc' = "plan"
                  /\ UNCHANGED <<outcome, response>>
    /\ UNCHANGED <<config, path, params, localRead, remoteGet, url, bytes, dst,
                   planned>>

\* Lines 173-194: the target dimensions and the destination image.
Plan ==
    /\ pc = "plan"
    /\ dst' = PlanDims(params, image[1], image[2])
    /\ planned' = TRUE
    /\ IF dst'[1] = 0 \/ dst'[2] = 0
       THEN \* NonZeroU32::new(0).unwrap()
            /\ pc' = "done"
            /\ outcome' = "Panic"
       ELSE /\ pc' = "resize"
            /\ UNCHANGED outcome
    /\ UNCHANGED <<config, path, params, localRead, remoteGet, url, bytes,
                   fetched, decoded, image, response>>

\* Lines 196-205: the resize.
Resize ==
    /\ pc = "resize"
    /\ \/ /\ pc' = "done"
          /\ outcome' = "ResizeFailed"
          /\ response' = ResizeErrorResponse
       \/ /\ pc' = "encode"
          /\ UNCHANGED <<outcome, response>>
    /\ UNCHANGED <<config, path, params, localRead, remoteGet, url, bytes,
                   fetched, decoded, image, dst, planned>>

\* Lines 210-240: the JPEG encode and the response.
Encode ==
    /\ pc = "encode"
    /\ pc' = "done"
    /\ outcome' = "Success"
    /\ response' = SuccessResponse(dst)
    /\ UNCHANGED <<config, path, params, localRead, remoteGet, url, bytes,
                   fetched, decoded, image, dst, planned>>

Next ==
    \/ FetchLocal
    \/ FetchRemote
    \/ Decode
    \/ Plan
    \/ Resize
    \/ Encode

Spec == Init /\ [][Next]_vars

\* The handler from the point where a local file has been read and decoded:
\* the dimension planning and what follows it, over wider ranges of source
\* sizes and requested values.
InitPlan ==
    /\ config = [local_folder |-> TRUE, remote_cdn |-> NoString]
    /\ path = <<"/", "a">>
    /\ params \in PlanParamsSet
    /\ pc = "plan"
    /\ localRead = "Ok"
    /\ remoteGet = "NotIssued"
    /\ url = <<>>
    /\ bytes = LocalBytes
    /\ fetched = TRUE
    /\ decoded = LocalBytes
    /\ image \in (1..MaxPlanSrc) \X (1..MaxPlanSrc)
    /\ dst = <<0, 0>>
    /\ planned = FALSE
    /\ outcome = "Pending"
    /\ response = NoResponse

NextPlan ==
    \/ Plan
    \/ Resize
    \/ Encode

SpecPlan == InitPlan /\ [][NextPlan]_vars

\* ------------------------------------------------------------ properties
RoundHalfAway(n, d) == (2 * n + d) \div (2 * d)
Abs(x) == IF x < 0 THEN 0 - x ELSE x
Max(a, b) == IF a >= b THEN a ELSE b

\* The requested width and height as the interface states them: `width`,
\* else `w`; `height`, else `h`.
AskedWidth == IF params.width # 0 THEN params.width ELSE params.w
AskedHeight == IF params.height # 0 THEN params.height ELSE params.h
OnlyWidthAsked == AskedWidth # 0 /\ AskedHeight = 0
OnlyHeightAsked == AskedWidth = 0 /\ AskedHeight # 0
FourOutcomes == {"Success", "SourceNotFound", "DecodeFailed", "ResizeFailed"}
NonEmptyRemote == config.remote_cdn # NoString /\ config.remote_cdn[1] # <<>>

\* C1: once the dimension planning has run on a source of at least 1x1, the
\* target width and height are both at least 1.
C1_TargetAtLeastOne ==
    planned => dst[1] >= 1 /\ dst[2] >= 1

\* C2: with exactly one dimension requested, the given one is used unchanged
\* and the other is source_other * requested / source_given rounded to the
\* nearest integer, halves away from zero.
C2_OtherIsRoundedNearest ==
    planned =>
        /\ OnlyWidthAsked =>
             dst = <<AskedWidth, RoundHalfAway(image[2] * AskedWidth, image[1])>>
        /\ OnlyHeightAsked =>
             dst = <<RoundHalfAway(image[1] * AskedHeight, image[2]), AskedHeight>>

\* C3: with neither dimension requested, the target is
\* max(1, floor(source_width / 4)) by max(1, floor(source_height / 4)).
C3_DefaultQuarterClamped ==
    planned /\ AskedWidth = 0 /\ AskedHeight = 0 =>
        dst = <<Max(1, image[1] \div 4), Max(1, image[2] \div 4)>>

\* C4: status, Content-Type and Cache-Control of the response are those of the
\* response policy table for each of the four outcomes.
C4_ResponsePolicyTable ==
    /\ outcome = "Success" =>
         /\ response.status = 200
         /\ response.ctype = "image/jpeg"
         /\ response.cache = "public, s-maxage=2592000"
    /\ outcome = "SourceNotFound" =>
         /\ response.status = 404
         /\ response.cache = "public, s-maxage=28800"
    /\ outcome = "DecodeFailed" =>
         /\ response.status = 500
         /\ response.cache = "public, s-maxage=604800"
    /\ outcome = "ResizeFailed" =>
         /\ response.status = 500
         /\ response.cache = "public, s-maxage=28800"

\* C5: local takes priority and one source supplies the bytes: after a
\* successful local read no remote GET is issued and the bytes kept and decoded
\* are the local file's; a remote GET is issued only after a local miss or
\* without a local folder.
C5_LocalPriority ==
    /\ localRead = "Ok" =>
         /\ remoteGet = "NotIssued"
         /\ url = <<>>
         /\ bytes = LocalBytes
         /\ decoded \in {None, LocalBytes}
    /\ remoteGet # "NotIssued" =>
         \/ ~config.local_folder
         \/ localRead \in {"NotFound", "OtherError"}
    /\ decoded # None => decoded = bytes

\* C5's case: a local hit with a remote base configured, served to the end.
C5_Witness ==
    /\ localRead = "Ok"
    /\ NonEmptyRemote
    /\ decoded = LocalBytes
    /\ outcome = "Success"

\* C6: a local read failure of any kind is a miss that does not end the
\* request: with a remote base configured the GET is attempted, a 2xx answer
\* with its body supplies the bytes, and the request ends SourceNotFound
\* exactly when the remote misses too (not configured, non-2xx, or a network
\* failure while sending or while reading the body).
C6_LocalFailureIsMiss ==
    (pc \notin {"local", "remote"} /\ localRead \in {"NotFound", "OtherError"}) =>
        /\ NonEmptyRemote => remoteGet # "NotIssued"
        /\ remoteGet = "Ok2xx" =>
             /\ bytes = RemoteBytes
             /\ decoded \in {None, RemoteBytes}
             /\ outcome # "SourceNotFound"
        /\ (pc = "done" /\ (NonEmptyRemote \/ config.remote_cdn = NoString)) =>
             (outcome = "SourceNotFound" <=>
                remoteGet \in {"NotIssued", "Non2xx", "BodyError", "SendError"})
        /\ (pc = "done" /\ config.remote_cdn = NoString) => remoteGet = "NotIssued"

\* C6's case: an unexpected local I/O error followed by a remote 2xx, served.
C6_Witness ==
    /\ localRead = "OtherError"
    /\ remoteGet = "Ok2xx"
    /\ decoded = RemoteBytes
    /\ outcome = "Success"

\* C7: the URL requested is the base without its trailing slash, one '/',
\* and the path without its leading slash.
C7_UrlJoinOneSlash ==
    remoteGet # "NotIssued" =>
        LET base == config.remote_cdn[1]
            stem == IF base[Len(base)] = "/"
                    THEN SubSeq(base, 1, Len(base) - 1)
                    ELSE base
        IN  url = stem \o <<"/">> \o SubSeq(path, 2, Len(path))

\* C7's case: a GET issued for a base that ends with '/'.
C7_Witness ==
    /\ remoteGet # "NotIssued"
    /\ config.remote_cdn[1][Len(config.remote_cdn[1])] = "/"
    /\ Len(path) > 2

\* C8 as stated: with exactly one dimension requested,
\* round(target_other / target_given * source_given) is within 1 of
\* source_other, for every source size and requested value.
C8_BackProjectionWithinOne ==
    (planned /\ dst[1] >= 1 /\ dst[2] >= 1) =>
        /\ OnlyWidthAsked =>
             Abs(RoundHalfAway(dst[2] * image[1], dst[1]) - image[2]) <= 1
        /\ OnlyHeightAsked =>
             Abs(RoundHalfAway(dst[1] * image[2], dst[2]) - image[1]) <= 1

\* C8 amended: the same, for requests that do not downscale (the requested
\* value is at least the source's size on that axis).
C8_BackProjectionWithinOneUpscaling ==
    planned =>
        /\ (OnlyWidthAsked /\ AskedWidth >= image[1]) =>
             /\ dst[1] >= 1 /\ dst[2] >= 1
             /\ Abs(RoundHalfAway(dst[2] * image[1], dst[1]) - image[2]) <= 1
        /\ (OnlyHeightAsked /\ AskedHeight >= image[2]) =>
             /\ dst[1] >= 1 /\ dst[2] >= 1
             /\ Abs(RoundHalfAway(dst[1] * image[2], dst[2]) - image[1]) <= 1

\* C8's case: an upscale where the f32 product falls short of the exact
\* quotient's integer part and the back-projection misses the source by one.
C8_Witness ==
    /\ planned
    /\ OnlyWidthAsked
    /\ AskedWidth > image[1]
    /\ dst[2] < (image[2] * AskedWidth) \div image[1]
    /\ RoundHalfAway(dst[2] * image[1], dst[1]) = image[2] - 1
    /\ outcome = "Success"

\* C9: with both a width (`width`, else `w`) and a height (`height`, else `h`)
\* requested, the target is exactly those two values whatever the source is,
\* and the encoded output has exactly that width and height.
C9_BothRequestedVerbatim ==
    (AskedWidth # 0 /\ AskedHeight # 0) =>
        /\ planned => dst = <<AskedWidth, AskedHeight>>
        /\ outcome = "Success" => response.body = <<AskedWidth, AskedHeight>>

\* C9's case: both names of the width given with different values, a height,
\* a source of another size, served.
C9_Witness ==
    /\ params.width # 0 /\ params.w # 0 /\ params.width # params.w
    /\ AskedHeight # 0
    /\ image # <<AskedWidth, AskedHeight>>
    /\ image[1] * AskedHeight # image[2] * AskedWidth
    /\ outcome = "Success"

\* C10: a request whose source acquisition completed ends in one of the four
\* outcomes, never aborted without one.
C10_EndsInOneOfFourOutcomes ==
    (fetched /\ pc = "done") => outcome \in FourOutcomes

====
